---- MODULE Spec2Model ----
(***************************************************************************)
(* AIMetadataGenerator (src/ai_generator.py): frame sampling, content      *)
(* analysis, title and description generation, and the deterministic       *)
(* parsing of the description into keywords, hashtags and tags.            *)
(*                                                                         *)
(* A Python str is modelled as the sequence of its characters, each        *)
(* character a one-character string; a code point outside ASCII is one     *)
(* element written by its name ("U+26A0").  A list of str is a sequence of *)
(* such sequences.                                                         *)
(***************************************************************************)
EXTENDS Integers, Sequences, FiniteSets, TLC

\* ---------------------------------------------------------------- bounds
\* Largest frame count a video of the model reports.
MaxT == 30
\* Largest num_frames a direct caller of extract_video_frames passes.
MaxN == 3
\* Longest model response, in characters, to the title prompt.
MaxTitleLen == 3
\* Most lines of a description document handed to the parsing loop.
MaxLines == 2
\* Readings of the wall clock (datetime.now()).
MaxClock == 2

\* ------------------------------------------------------- program constants
\* analyze_video_content asks the sampler for two frames.
AnalysisFrames == 2
\* tags = keywords[:15]
MaxTags == 15

\* ------------------------------------------------------------ str methods
Whitespace == {" ", "\t", "\n", "\r"}

IsSpace(c) == c \in Whitespace

\* F(v), with v evaluated once however often F reads it.
Bind(v, F(_)) == CHOOSE r \in {F(x) : x \in {v}} : TRUE

\* s.startswith(p)
StartsWith(s, p) == Len(s) >= Len(p) /\ SubSeq(s, 1, Len(p)) = p

\* s.strip(): leading and trailing whitespace removed.
Strip(text) ==
    Bind(text, LAMBDA s :
        IF \A k \in 1..Len(s) : IsSpace(s[k]) THEN <<>>
        ELSE LET first == CHOOSE k \in 1..Len(s) :
                              ~IsSpace(s[k]) /\ \A j \in 1..(k - 1) : IsSpace(s[j])
                 last == CHOOSE k \in 1..Len(s) :
                              ~IsSpace(s[k]) /\ \A j \in (k + 1)..Len(s) : IsSpace(s[j])
             IN  SubSeq(s, first, last))

\* The elements of a finite set of integers in increasing order.
Sorted(set) ==
    Bind(set, LAMBDA S :
        [k \in 1..Cardinality(S) |-> CHOOSE x \in S : Cardinality({y \in S : y <= x}) = k])

\* s.split(sep) for a one-character sep: empty parts are kept, and a string
\* without sep is the one part.
Split(text, sep) ==
    Bind(text, LAMBDA s :
        Bind(Sorted({k \in 1..Len(s) : s[k] = sep}), LAMBDA at :
            [k \in 1..(Len(at) + 1) |->
                SubSeq(s, IF k = 1 THEN 1 ELSE at[k - 1] + 1,
                          IF k = Len(at) + 1 THEN Len(s) ELSE at[k] - 1)]))

\* s.split(): the maximal runs of non-whitespace characters.
SplitWhitespace(text) ==
    Bind(text, LAMBDA s :
        Bind(Sorted({k \in 1..Len(s) : ~IsSpace(s[k]) /\ (k = 1 \/ IsSpace(s[k - 1]))}),
             LAMBDA starts :
        Bind(Sorted({k \in 1..Len(s) : ~IsSpace(s[k]) /\ (k = Len(s) \/ IsSpace(s[k + 1]))}),
             LAMBDA ends :
            [k \in 1..Len(starts) |-> SubSeq(s, starts[k], ends[k])])))

\* The first position from `from` on where old occurs in s; 0 if none.
NextOccurrence(s, old, from) ==
    LET Here(k) == SubSeq(s, k, k + Len(old) - 1) = old
        starts == from..(Len(s) - Len(old) + 1)
    IN  IF \E k \in starts : Here(k)
        THEN CHOOSE k \in starts : Here(k) /\ \A j \in from..(k - 1) : ~Here(j)
        ELSE 0

\* s[from:].replace(old, ''): every occurrence of old, found left to right
\* without overlap, is removed.
RECURSIVE RemoveFrom(_, _, _)
RemoveFrom(s, old, from) ==
    Bind(NextOccurrence(s, old, from), LAMBDA at :
        IF at = 0 THEN SubSeq(s, from, Len(s))
        ELSE SubSeq(s, from, at - 1) \o RemoveFrom(s, old, at + Len(old)))

\* s.replace(old, '')
Remove(text, old) == Bind(text, LAMBDA s : RemoveFrom(s, old, 1))

\* '\n'.join(lines)
RECURSIVE JoinLines(_)
JoinLines(lines) ==
    IF Len(lines) = 0 THEN <<>>
    ELSE IF Len(lines) = 1 THEN lines[1]
    ELSE lines[1] \o <<"\n">> \o JoinLines(Tail(lines))

\* ---------------------------------------------------------------- literals
KeywordsLabel == <<"K","e","y","w","o","r","d","s",":">>

HashtagsLabel == <<"H","a","s","h","t","a","g","s",":">>

\* analyze_video_content's result when the sampler gave no frame.
UnableToAnalyze ==
    <<"U","n","a","b","l","e"," ","t","o"," ","a","n","a","l","y","z","e"," ","v","i","d","e",
      "o"," ","c","o","n","t","e","n","t">>

\* analyze_video_content's result when anything in it raised.
AnalysisUnavailable ==
    <<"V","i","d","e","o"," ","c","o","n","t","e","n","t"," ","a","n","a","l","y","s","i","s",
      " ","u","n","a","v","a","i","l","a","b","l","e">>

\* generate_title's result when the model invocation raised.
FallbackTitle ==
    <<"A","m","a","z","i","n","g"," ","V","i","d","e","o"," ","C","o","n","t","e","n","t">>

\* The lines of the literal _fallback_description returns.
FallbackLines == <<
    <<"A","m","a","z","i","n","g"," ","v","i","d","e","o"," ","c","o","n","t","e","n","t"," ",
      "t","h","a","t"," ","w","i","l","l"," ","k","e","e","p"," ","y","o","u"," ","e","n","t",
      "e","r","t","a","i","n","e","d","!">>,
    <<"W","a","t","c","h"," ","t","h","i","s"," ","i","n","c","r","e","d","i","b","l","e"," ",
      "m","o","m","e","n","t"," ","c","a","p","t","u","r","e","d"," ","o","n"," ","v","i","d",
      "e","o",".">>,
    <<"P","e","r","f","e","c","t"," ","f","o","r"," ","s","h","a","r","i","n","g"," ","w","i",
      "t","h"," ","f","r","i","e","n","d","s"," ","a","n","d"," ","f","a","m","i","l","y",".">>,
    <<"D","o","n","'","t"," ","f","o","r","g","e","t"," ","t","o"," ","l","i","k","e"," ","a",
      "n","d"," ","s","u","b","s","c","r","i","b","e"," ","f","o","r"," ","m","o","r","e"," ",
      "c","o","n","t","e","n","t",".">>,
    <<"T","h","i","s"," ","v","i","d","e","o"," ","s","h","o","w","c","a","s","e","s"," ","s",
      "o","m","e"," ","r","e","a","l","l","y"," ","c","o","o","l"," ","s","t","u","f","f",".">>,
    <<"Y","o","u"," ","w","o","n","'","t"," ","b","e","l","i","e","v","e"," ","w","h","a","t",
      " ","h","a","p","p","e","n","s"," ","i","n"," ","t","h","i","s"," ","v","i","d","e","o",
      ".">>,
    <<"M","a","k","e"," ","s","u","r","e"," ","t","o"," ","w","a","t","c","h"," ","u","n","t",
      "i","l"," ","t","h","e"," ","e","n","d",".">>,
    <<"C","o","m","m","e","n","t"," ","b","e","l","o","w"," ","w","h","a","t"," ","y","o","u",
      " ","t","h","i","n","k"," ","a","b","o","u","t"," ","t","h","i","s",".">>,
    <<"S","h","a","r","e"," ","t","h","i","s"," ","v","i","d","e","o"," ","i","f"," ","y","o",
      "u"," ","e","n","j","o","y","e","d"," ","i","t",".">>,
    <<"T","h","a","n","k","s"," ","f","o","r"," ","w","a","t","c","h","i","n","g"," ","o","u",
      "r"," ","c","o","n","t","e","n","t","!">>,
    <<>>,
    <<"K","e","y","w","o","r","d","s",":"," ","v","i","r","a","l"," ","v","i","d","e","o",",",
      " ","t","r","e","n","d","i","n","g"," ","c","o","n","t","e","n","t",","," ","a","m","a",
      "z","i","n","g"," ","m","o","m","e","n","t","s",","," ","e","n","t","e","r","t","a","i",
      "n","m","e","n","t",","," ","s","o","c","i","a","l"," ","m","e","d","i","a",","," ","s",
      "h","o","r","t"," ","v","i","d","e","o",","," ","f","u","n","n","y"," ","c","l","i","p",
      "s",","," ","m","u","s","t"," ","w","a","t","c","h",","," ","i","n","c","r","e","d","i",
      "b","l","e",","," ","a","w","e","s","o","m","e",","," ","c","o","o","l"," ","s","t","u",
      "f","f",","," ","v","i","r","a","l"," ","c","l","i","p","s",","," ","t","r","e","n","d",
      "i","n","g"," ","n","o","w",","," ","p","o","p","u","l","a","r"," ","v","i","d","e","o",
      ","," ","e","n","g","a","g","i","n","g"," ","c","o","n","t","e","n","t",","," ","s","h",
      "a","r","e","a","b","l","e",","," ","e","n","t","e","r","t","a","i","n","i","n","g",",",
      " ","v","i","d","e","o"," ","c","o","n","t","e","n","t",","," ","s","o","c","i","a","l",
      " ","s","h","a","r","i","n","g",","," ","w","a","t","c","h"," ","n","o","w">>,
    <<>>,
    <<"H","a","s","h","t","a","g","s",":"," ","#","s","h","o","r","t","s"," ","#","v","i","r",
      "a","l"," ","#","t","r","e","n","d","i","n","g"," ","#","a","m","a","z","i","n","g"," ",
      "#","e","n","t","e","r","t","a","i","n","m","e","n","t"," ","#","v","i","d","e","o"," ",
      "#","c","o","n","t","e","n","t"," ","#","s","o","c","i","a","l","m","e","d","i","a"," ",
      "#","f","u","n","n","y"," ","#","c","o","o","l"," ","#","a","w","e","s","o","m","e"," ",
      "#","m","u","s","t","w","a","t","c","h"," ","#","i","n","c","r","e","d","i","b","l","e",
      " ","#","p","o","p","u","l","a","r"," ","#","e","n","g","a","g","i","n","g"," ","#","s",
      "h","a","r","e","a","b","l","e"," ","#","e","n","t","e","r","t","a","i","n","i","n","g",
      " ","#","v","i","d","e","o","o","f","t","h","e","d","a","y"," ","#","t","r","e","n","d",
      " ","#","v","i","r","a","l","2","0","2","4"," ","#","s","h","o","r","t","s","v","i","d",
      "e","o"," ","#","v","i","r","a","l","s","h","o","r","t","s"," ","#","t","r","e","n","d",
      "i","n","g","s","h","o","r","t","s"," ","#","a","m","a","z","i","n","g","v","i","d","e",
      "o"," ","#","v","i","r","a","l","c","o","n","t","e","n","t"," ","#","s","h","o","r","t",
      "s","f","e","e","d"," ","#","e","x","p","l","o","r","e"," ","#","f","y","p"," ","#","f",
      "o","r","y","o","u"," ","#","v","i","r","a","l","m","o","m","e","n","t">>,
    <<>>,
    <<"U+26A0","U+FE0F"," ","C","o","p","y","r","i","g","h","t"," ","D","i","s","c","l","a","i","m","e",
      "r",":"," ","T","h","i","s"," ","c","o","n","t","e","n","t"," ","i","s"," ","u","s","e",
      "d"," ","f","o","r"," ","e","d","u","c","a","t","i","o","n","a","l"," ","a","n","d"," ",
      "e","n","t","e","r","t","a","i","n","m","e","n","t"," ","p","u","r","p","o","s","e","s",
      "."," ","A","l","l"," ","r","i","g","h","t","s"," ","b","e","l","o","n","g"," ","t","o",
      " ","t","h","e","i","r"," ","r","e","s","p","e","c","t","i","v","e"," ","o","w","n","e",
      "r","s","."," ","I","f"," ","y","o","u"," ","a","r","e"," ","t","h","e"," ","o","w","n",
      "e","r"," ","a","n","d"," ","w","a","n","t"," ","t","h","i","s"," ","r","e","m","o","v",
      "e","d",","," ","p","l","e","a","s","e"," ","c","o","n","t","a","c","t"," ","u","s",".">>
    >>

\* _fallback_description()
fallback_description == JoinLines(FallbackLines)

\* ------------------------------------------------------------------ state
VARIABLES
    pc,              \* position of the running call
    caller,          \* who called extract_video_frames: "direct" or "analyze"
    num_frames,      \* extract_video_frames' parameter
    cap,             \* the cv2.VideoCapture: "unbound", "unopened", "open", "released"
    frame_count,     \* extract_video_frames' local
    i,               \* the sampling loop's index
    reads,           \* ret of each cap.read() of the loop so far
    frames,          \* the frames appended so far, each named by its position
    sampled,         \* how many frames the sampler handed to analyze_video_content
    video_analysis,  \* generate_complete_metadata's locals
    title,
    description,
    metadata,        \* the returned dict; no field before it is built
    response,        \* what the latest model invocation gave: [ok, text]
    calls            \* the model invocations made so far, in order

vars == <<pc, caller, num_frames, cap, frame_count, i, reads, frames, sampled,
          video_analysis, title, description, metadata, response, calls>>

samplerVars == <<caller, num_frames, cap, frame_count, i, reads, frames>>

pipelineVars == <<sampled, video_analysis, title, description, metadata, response, calls>>

Timestamps == 1..MaxClock

\* `response` before any invocation.
NoResponse == [ok |-> FALSE, text |-> <<>>]

\* --------------------------------------------------- extract_video_frames
\* FrameNumber counting the iterations from 0 where the code counts from 1.
FrameNumber_FromZero(k, T, N) == (k * T) \div (N + 1)

\* frame_number = int((i + 1) * frame_count / (num_frames + 1)): a float
\* quotient of non-negative integers cut to an integer, which for the
\* magnitudes of the model is the integer quotient.
FrameNumber(k, T, N) == ((k + 1) * T) \div (N + 1)

\* cap.read() can give a frame: the capture is open and the position sought
\* is inside the video.
Decodable == cap = "open" /\ FrameNumber(i, frame_count, num_frames) < frame_count

\* Handing `result` back: to a direct caller the call is over; inside
\* analyze_video_content it becomes that function's `frames` and the locals
\* of the sampler die with the call.
Return(result, capAfter) ==
    /\ frames' = result
    /\ IF caller = "direct"
       THEN /\ pc' = "returned"
            /\ cap' = capAfter
            /\ UNCHANGED <<caller, num_frames, frame_count, i, reads, sampled>>
       ELSE /\ pc' = "analyze"
            /\ cap' = "unbound"
            /\ frame_count' = 0
            /\ i' = 0
            /\ reads' = <<>>
            /\ sampled' = Len(result)
            /\ UNCHANGED <<caller, num_frames>>
    /\ UNCHANGED <<video_analysis, title, description, metadata, response, calls>>

\* cap = cv2.VideoCapture(video_path): a capture object either way, opened
\* only when the file can be read.
OpenVideo ==
    /\ pc = "open"
    /\ \E openable \in BOOLEAN : cap' = IF openable THEN "open" ELSE "unopened"
    /\ pc' = "count"
    /\ UNCHANGED <<caller, num_frames, frame_count, i, reads, frames, pipelineVars>>

\* frame_count = int(cap.get(cv2.CAP_PROP_FRAME_COUNT)); frames = []
\* A capture that is not opened reports 0.
ReadFrameCount ==
    /\ pc = "count"
    /\ \E T \in 0..MaxT :
         /\ cap = "open" \/ T = 0
         /\ frame_count' = T
    /\ frames' = <<>>
    /\ i' = 0
    /\ reads' = <<>>
    /\ pc' = "loop"
    /\ UNCHANGED <<caller, num_frames, cap, pipelineVars>>

\* The read of the frame count raises.
FrameCountRaises ==
    /\ pc = "count"
    /\ pc' = "except"
    /\ UNCHANGED <<samplerVars, pipelineVars>>

\* One iteration whose cap.read() gives ret = False: the frame is omitted.
ReadFails ==
    /\ pc = "loop"
    /\ i < num_frames
    /\ reads' = Append(reads, FALSE)
    /\ i' = i + 1
    /\ UNCHANGED <<pc, caller, num_frames, cap, frame_count, frames, pipelineVars>>

\* One iteration whose cap.read() gives a frame, which is converted, resized
\* and appended.
ReadAppends ==
    /\ pc = "loop"
    /\ i < num_frames
    /\ Decodable
    /\ reads' = Append(reads, TRUE)
    /\ frames' = Append(frames, FrameNumber(i, frame_count, num_frames))
    /\ i' = i + 1
    /\ UNCHANGED <<pc, caller, num_frames, cap, frame_count, pipelineVars>>

\* One iteration whose cap.read() gives a frame and whose colour conversion
\* or resize raises.
ConvertRaises ==
    /\ pc = "loop"
    /\ i < num_frames
    /\ Decodable
    /\ reads' = Append(reads, TRUE)
    /\ pc' = "except"
    /\ UNCHANGED <<caller, num_frames, cap, frame_count, i, frames, pipelineVars>>

\* cap.release(); return frames
ReleaseAndReturn ==
    /\ pc = "loop"
    /\ i >= num_frames
    /\ Return(frames, "released")

\* except Exception: print; return [].  The handler does not call
\* cap.release(); once `cap` is out of scope the runtime's collector may or
\* may not have finalized the capture by the time the caller runs on.
HandleException ==
    /\ pc = "except"
    /\ \E finalized \in BOOLEAN :
         Return(<<>>, IF finalized /\ cap = "open" THEN "released" ELSE cap)

NextFrames ==
    \/ OpenVideo
    \/ ReadFrameCount
    \/ FrameCountRaises
    \/ ReadFails
    \/ ReadAppends
    \/ ConvertRaises
    \/ ReleaseAndReturn
    \/ HandleException

\* A direct call extract_video_frames(video_path, num_frames).
InitFrames ==
    /\ pc = "open"
    /\ caller = "direct"
    /\ num_frames \in 0..MaxN
    /\ cap = "unbound"
    /\ frame_count = 0
    /\ i = 0
    /\ reads = <<>>
    /\ frames = <<>>
    /\ sampled = 0
    /\ video_analysis = <<>>
    /\ title = <<>>
    /\ description = <<>>
    /\ metadata = <<>>
    /\ response = NoResponse
    /\ calls = <<>>

SpecFrames == InitFrames /\ [][NextFrames]_vars

\* ------------------------------------------------- description documents
\* How a line of a model-written description may begin.
LinePrefixes ==
    { <<>>, KeywordsLabel, HashtagsLabel, <<" ">> \o KeywordsLabel }

\* What may follow on the line.
LineBodies ==
    { <<>>,
      <<" ","c","a","t",","," ","d","o","g",","," "," ","b","i","r","d">>,
      <<" ","#","a"," ","b"," ","#","c">>,
      <<" ","a",",","K","e","y","w","o","r","d","s",":"," ","b">>,
      <<"a",",","b",",","c",",","d",",","e",",","f",",","g",",","h",",","i",",","j",",","k",",",
        "l",",","m",",","n",",","o",",","p",",","q">> }

SampleLines == {p \o b : p \in LinePrefixes, b \in LineBodies}

\* The model-written descriptions of at most n lines.
Documents(n) ==
    {JoinLines(ls) : ls \in UNION {[1..k -> SampleLines] : k \in 1..n}}

\* ------------------------------------------------------ model invocations
\* What self.model.generate_content(...) followed by response.text can do:
\* give a text, or raise.
Outcomes(texts) ==
    {[ok |-> TRUE, text |-> t] : t \in texts} \cup {[ok |-> FALSE, text |-> <<>>]}

\* The texts of at most n characters over the alphabet A.
Texts(A, n) == UNION {[1..k -> A] : k \in 0..n}

\* Responses to the frame prompt: a description inside whitespace, and an
\* empty one.
AnalysisResponses ==
    { <<" ","c","a","t","\n">>, <<>> }

\* Responses to the title prompt: letters, blanks and both quote characters.
TitleResponses == Texts({"a", " ", "\"", "'"}, MaxTitleLen)

\* Responses to the description prompt: the one-line documents.
DescriptionResponses == SampleLines

\* The frame handed to the model with the analysis prompt.
FrameInput == <<"frames[0]">>

\* One more invocation: `response` is what it gave, and the log grows.
Invoke(stage, input, r) ==
    /\ response' = r
    /\ calls' = Append(calls, [stage |-> stage, input |-> input, ok |-> r.ok])

\* --------------------------------------------------- analyze_video_content
\* AnalysisHandler letting the exception go on to the caller.
AnalysisHandler_Reraises == [raised |-> TRUE, value |-> AnalysisUnavailable]

\* except Exception as e: print; return "Video content analysis unavailable"
AnalysisHandler == [raised |-> FALSE, value |-> AnalysisUnavailable]

\* try: response = ...; return response.text.strip()
AnalysisResult(r) ==
    IF r.ok THEN [raised |-> FALSE, value |-> Strip(r.text)] ELSE AnalysisHandler

\* generate_complete_metadata calls analyze_video_content, which calls
\* extract_video_frames(video_path, 2).
EnterAnalyze ==
    /\ pc = "start"
    /\ pc' = "open"
    /\ caller' = "analyze"
    /\ num_frames' = AnalysisFrames
    /\ UNCHANGED <<cap, frame_count, i, reads, frames, pipelineVars>>

\* AnalyzeNoFrames without the emptiness test: frames[0] raises and the
\* handler's string is returned.
AnalyzeNoFrames_Unchecked ==
    /\ pc = "analyze"
    /\ frames = <<>>
    /\ video_analysis' = AnalysisUnavailable
    /\ pc' = "title"
    /\ UNCHANGED <<samplerVars, sampled, title, description, metadata, response, calls>>

\* if not frames: return "Unable to analyze video content"
AnalyzeNoFrames ==
    /\ pc = "analyze"
    /\ frames = <<>>
    /\ video_analysis' = UnableToAnalyze
    /\ pc' = "title"
    /\ UNCHANGED <<samplerVars, sampled, title, description, metadata, response, calls>>

\* frame = frames[0]; one invocation with the prompt and the frame.
AnalyzeFrame ==
    /\ pc = "analyze"
    /\ frames # <<>>
    /\ \E r \in Outcomes(AnalysisResponses) :
         LET res == AnalysisResult(r)
         IN  /\ Invoke("analysis", FrameInput, r)
             /\ IF res.raised
                THEN pc' = "raised" /\ UNCHANGED video_analysis
                ELSE pc' = "title" /\ video_analysis' = res.value
    /\ frames' = <<>>
    /\ UNCHANGED <<caller, num_frames, cap, frame_count, i, reads,
                   sampled, title, description, metadata>>

\* ------------------------------------------------------------ generate_title
\* except Exception as e: print; return "Amazing Video Content"
TitleHandler == [raised |-> FALSE, value |-> FallbackTitle]

\* response.text.strip().replace('"', '').replace("'", "")
CleanTitle(text) == Remove(Remove(Strip(text), <<"\"">>), <<"'">>)

TitleResult(r) ==
    IF r.ok THEN [raised |-> FALSE, value |-> CleanTitle(r.text)] ELSE TitleHandler

\* GenerateTitle invoking the model a second time when the first raised.
GenerateTitle_Retries ==
    /\ pc = "title"
    /\ \E r \in Outcomes(TitleResponses) :
         LET res == TitleResult(r)
             call == [stage |-> "title", input |-> video_analysis, ok |-> r.ok]
         IN  /\ response' = r
             /\ calls' = IF r.ok THEN Append(calls, call)
                         ELSE Append(Append(calls, call), call)
             /\ pc' = "description"
             /\ title' = res.value
    /\ UNCHANGED <<samplerVars, sampled, video_analysis, description, metadata>>

\* title = self.generate_title(video_analysis)
GenerateTitle ==
    /\ pc = "title"
    /\ \E r \in Outcomes(TitleResponses) :
         LET res == TitleResult(r)
         IN  /\ Invoke("title", video_analysis, r)
             /\ IF res.raised
                THEN pc' = "raised" /\ UNCHANGED title
                ELSE pc' = "description" /\ title' = res.value
    /\ UNCHANGED <<samplerVars, sampled, video_analysis, description, metadata>>

\* ------------------------------------------------------ generate_description
\* except Exception as e: print; return self._fallback_description()
DescriptionHandler == [raised |-> FALSE, value |-> fallback_description]

\* return response.text.strip()
DescriptionResult(r) ==
    IF r.ok THEN [raised |-> FALSE, value |-> Strip(r.text)] ELSE DescriptionHandler

\* description = self.generate_description(video_analysis)
GenerateDescription ==
    /\ pc = "description"
    /\ \E r \in Outcomes(DescriptionResponses) :
         LET res == DescriptionResult(r)
         IN  /\ Invoke("description", video_analysis, r)
             /\ IF res.raised
                THEN pc' = "raised" /\ UNCHANGED description
                ELSE pc' = "assemble" /\ description' = res.value
    /\ UNCHANGED <<samplerVars, sampled, video_analysis, title, metadata>>

\* ------------------------------------------- generate_complete_metadata
\* [tag.strip() for tag in hashtags_text.split() if tag.startswith('#')]
ExtractHashtags(line) ==
    LET hashtags_text == Strip(Remove(line, HashtagsLabel))
        IsMarked(tag) == StartsWith(tag, <<"#">>)
    IN  Bind(SelectSeq(SplitWhitespace(hashtags_text), IsMarked), LAMBDA marked :
            [k \in 1..Len(marked) |-> Strip(marked[k])])

\* ExtractKeywords without the strip() of each term.
ExtractKeywords_Untrimmed(line) ==
    Split(Strip(Remove(line, KeywordsLabel)), ",")

\* [kw.strip() for kw in keywords_text.split(',')]
ExtractKeywords(line) ==
    LET keywords_text == Strip(Remove(line, KeywordsLabel))
    IN  Bind(Split(keywords_text, ","), LAMBDA terms :
            [k \in 1..Len(terms) |-> Strip(terms[k])])

\* keywords[:15]
FirstTags(keywords) ==
    IF Len(keywords) < MaxTags THEN keywords ELSE SubSeq(keywords, 1, MaxTags)

\* ParseLine setting tags from the first "Keywords:" line only.
ParseLine_TagsFromFirstLine(st, line) ==
    IF StartsWith(line, HashtagsLabel)
    THEN [st EXCEPT !.hashtags = ExtractHashtags(line)]
    ELSE IF StartsWith(line, KeywordsLabel)
    THEN Bind(ExtractKeywords(line), LAMBDA keywords :
             [st EXCEPT !.keywords = keywords,
                        !.tags = IF st.tags = <<>> THEN FirstTags(keywords) ELSE st.tags])
    ELSE st

\* One pass of the loop body over a line.
ParseLine(st, line) ==
    IF StartsWith(line, HashtagsLabel)
    THEN [st EXCEPT !.hashtags = ExtractHashtags(line)]
    ELSE IF StartsWith(line, KeywordsLabel)
    THEN Bind(ExtractKeywords(line), LAMBDA keywords :
             [st EXCEPT !.keywords = keywords, !.tags = FirstTags(keywords)])
    ELSE st

\* The loop over description_lines, from line k on.
RECURSIVE ParseFrom(_, _, _)
ParseFrom(description_lines, k, st) ==
    IF k > Len(description_lines) THEN st
    ELSE Bind(ParseLine(st, description_lines[k]), LAMBDA next :
             ParseFrom(description_lines, k + 1, next))

\* hashtags, keywords and tags as the loop leaves them.
ParseDescription(text) ==
    Bind(Split(text, "\n"), LAMBDA description_lines :
        ParseFrom(description_lines, 1, [hashtags |-> <<>>, keywords |-> <<>>, tags |-> <<>>]))

\* The parsing loop, the dict and the return.
Assemble ==
    /\ pc = "assemble"
    /\ \E now \in Timestamps, parsed \in {ParseDescription(description)} :
         metadata' = [video_analysis |-> video_analysis,
                          title |-> title,
                          description |-> description,
                          tags |-> parsed.tags,
                          hashtags |-> parsed.hashtags,
                          keywords |-> parsed.keywords,
                          generated_at |-> now]
    /\ pc' = "done"
    /\ UNCHANGED <<samplerVars, sampled, video_analysis, title, description, response, calls>>

\* A call that found no frame, whose title invocation raised and whose
\* description invocation gave any document, about to parse it.
InitParse ==
    /\ pc = "assemble"
    /\ caller = "analyze"
    /\ num_frames = AnalysisFrames
    /\ cap = "unbound"
    /\ frame_count = 0
    /\ i = 0
    /\ reads = <<>>
    /\ frames = <<>>
    /\ sampled = 0
    /\ video_analysis = UnableToAnalyze
    /\ title = FallbackTitle
    /\ \E text \in Documents(MaxLines) :
         /\ response = [ok |-> TRUE, text |-> text]
         /\ description = Strip(text)
    /\ metadata = <<>>
    /\ calls = << [stage |-> "title", input |-> UnableToAnalyze, ok |-> FALSE],
                  [stage |-> "description", input |-> UnableToAnalyze, ok |-> TRUE] >>

NextParse == Assemble

SpecParse == InitParse /\ [][NextParse]_vars

\* ------------------------------------------------------------ the pipeline
\* One call generate_complete_metadata(video_path).
Init ==
    /\ pc = "start"
    /\ caller = "analyze"
    /\ num_frames = AnalysisFrames
    /\ cap = "unbound"
    /\ frame_count = 0
    /\ i = 0
    /\ reads = <<>>
    /\ frames = <<>>
    /\ sampled = 0
    /\ video_analysis = <<>>
    /\ title = <<>>
    /\ description = <<>>
    /\ metadata = <<>>
    /\ response = NoResponse
    /\ calls = <<>>

Next ==
    \/ EnterAnalyze
    \/ OpenVideo
    \/ ReadFrameCount
    \/ FrameCountRaises
    \/ ReadFails
    \/ ReadAppends
    \/ ConvertRaises
    \/ ReleaseAndReturn
    \/ HandleException
    \/ AnalyzeNoFrames
    \/ AnalyzeFrame
    \/ GenerateTitle
    \/ GenerateDescription
    \/ Assemble

Spec == Init /\ [][Next]_vars

\* The call runs on one thread and every invocation returns or raises: a
\* step that can be taken is taken.
FairSpec == Spec /\ WF_vars(Next)

\* -------------------------------------------------------------- properties
MetadataFields ==
    {"video_analysis", "title", "description", "tags", "hashtags", "keywords", "generated_at"}

\* The positions from which generate_complete_metadata holds the result of
\* analyze_video_content, of generate_title, of generate_description.
AfterAnalysis == pc \in {"title", "description", "assemble", "done"}

AfterTitle == pc \in {"description", "assemble", "done"}

AfterDescription == pc \in {"assemble", "done"}

\* The invocations of the log made by `stage`.
CallsOf(stage) == {k \in 1..Len(calls) : calls[k].stage = stage}

\* The record holds its seven fields, each with a value of its kind: three
\* strings, three lists of strings and a timestamp.
RecordComplete ==
    /\ DOMAIN metadata = MetadataFields
    /\ \A f \in {"video_analysis", "title", "description"} : metadata[f] \in Seq(STRING)
    /\ \A f \in {"tags", "hashtags", "keywords"} : metadata[f] \in Seq(Seq(STRING))
    /\ metadata.generated_at \in Timestamps

\* C1: whatever the sampler finds and whichever of the three invocations
\* raise, the call never ends with an exception leaving it, and it ends by
\* returning a record that holds all seven fields.
C1_ReturnsCompleteRecord ==
    /\ [](pc # "raised")
    /\ <>(pc = "done" /\ RecordComplete)

\* C1's case: all three invocations raised and the record was returned.
C1_Witness ==
    /\ pc = "done"
    /\ RecordComplete
    /\ Len(calls) = 3
    /\ \A k \in 1..3 : ~calls[k].ok

\* C2: the returned record has a non-empty title and a non-empty
\* description, whatever the model returned.
C2_TitleAndDescriptionNonEmpty ==
    pc = "done" => metadata.title # <<>> /\ metadata.description # <<>>

\* C3: in every assembled record, tags has at most 15 entries and equals
\* keywords[:15].
C3_TagsArePrefix ==
    pc = "done" =>
        /\ Len(metadata.tags) <= 15
        /\ metadata.tags =
               IF Len(metadata.keywords) <= 15 THEN metadata.keywords
               ELSE SubSeq(metadata.keywords, 1, 15)

\* C3's case: a document of two "Keywords:" lines, the later one with more
\* than 15 terms, has been parsed.
C3_Witness ==
    /\ pc = "done"
    /\ LET lines == Split(description, "\n")
       IN  /\ Len(lines) = 2
           /\ StartsWith(lines[1], KeywordsLabel)
           /\ StartsWith(lines[2], KeywordsLabel)
    /\ Len(metadata.keywords) = 17
    /\ Len(metadata.tags) = 15

\* C4: whenever extract_video_frames has returned, a capture it opened has
\* been released.
C4_ReleasedOnEveryReturn ==
    pc = "returned" => cap # "open"

\* The i-th sample position of the specification: floor((i+1)*T/(N+1)).
ExpectedFrames(T, N) == [k \in 1..N |-> (k * T) \div (N + 1)]

\* Every cap.read() of the N iterations gave a frame.
AllDecoded ==
    /\ num_frames >= 1
    /\ frame_count >= num_frames + 1
    /\ Len(reads) = num_frames
    /\ \A k \in 1..Len(reads) : reads[k]

C6_SentinelFeedsGenerators ==
    (AfterAnalysis /\ sampled = 0) =>
        /\ video_analysis = UnableToAnalyze
        /\ CallsOf("analysis") = {}
        /\ AfterTitle =>
              /\ calls[1].stage = "title"
              /\ calls[1].input = UnableToAnalyze
              /\ ~calls[1].ok => title = FallbackTitle
              /\ pc = "description" =>
                    title = IF response.ok THEN CleanTitle(response.text) ELSE FallbackTitle
        /\ AfterDescription =>
              /\ calls[2].stage = "description"
              /\ calls[2].input = UnableToAnalyze
              /\ description =
                     IF calls[2].ok THEN Strip(response.text) ELSE fallback_description

\* C6's case: no frame, a generated title and a fallback description.
C6_Witness ==
    /\ pc = "done"
    /\ sampled = 0
    /\ Len(calls) = 2
    /\ calls[1].ok
    /\ ~calls[2].ok

\* The order of the stages.
StageRank(stage) ==
    CASE stage = "analysis" -> 1
      [] stage = "title" -> 2
      [] stage = "description" -> 3

\* Each stage invoked at most once, in the order analysis, title,
\* description, and a stage whose invocation raised holds its fallback.
OneInvocationPerStage ==
    /\ Len(calls) <= 3
    /\ \A j, k \in 1..Len(calls) : j < k => StageRank(calls[j].stage) < StageRank(calls[k].stage)
    /\ \A k \in 1..Len(calls) :
          ~calls[k].ok =>
              /\ (calls[k].stage = "analysis" /\ AfterAnalysis) =>
                     video_analysis = AnalysisUnavailable
              /\ (calls[k].stage = "title" /\ AfterTitle) => title = FallbackTitle
              /\ (calls[k].stage = "description" /\ AfterDescription) =>
                     description = fallback_description

\* What a stage has produced is not changed by a later step.
OutputsStand ==
    /\ AfterAnalysis => video_analysis' = video_analysis
    /\ AfterTitle => title' = title
    /\ AfterDescription => description' = description

\* C7: each of the three stages invokes the model at most once and in the
\* order analysis, title, description; an invocation that raises is not
\* repeated and leaves the stage's fixed fallback; no step changes what an
\* earlier stage produced.
C7_NoRetryNoRollback == []OneInvocationPerStage /\ [][OutputsStand]_vars

\* C7's case: three invocations, the title's raised, the others did not.
C7_Witness ==
    /\ pc = "done"
    /\ Len(calls) = 3
    /\ calls[1].ok
    /\ ~calls[2].ok
    /\ calls[3].ok
    /\ title = FallbackTitle
    /\ video_analysis = <<"c","a","t">>

\* The terms of the fallback document's "Keywords:" line.
FallbackKeywords == <<
    <<"v","i","r","a","l"," ","v","i","d","e","o">>,
    <<"t","r","e","n","d","i","n","g"," ","c","o","n","t","e","n","t">>,
    <<"a","m","a","z","i","n","g"," ","m","o","m","e","n","t","s">>,
    <<"e","n","t","e","r","t","a","i","n","m","e","n","t">>,
    <<"s","o","c","i","a","l"," ","m","e","d","i","a">>,
    <<"s","h","o","r","t"," ","v","i","d","e","o">>,
    <<"f","u","n","n","y"," ","c","l","i","p","s">>,
    <<"m","u","s","t"," ","w","a","t","c","h">>,
    <<"i","n","c","r","e","d","i","b","l","e">>,
    <<"a","w","e","s","o","m","e">>,
    <<"c","o","o","l"," ","s","t","u","f","f">>,
    <<"v","i","r","a","l"," ","c","l","i","p","s">>,
    <<"t","r","e","n","d","i","n","g"," ","n","o","w">>,
    <<"p","o","p","u","l","a","r"," ","v","i","d","e","o">>,
    <<"e","n","g","a","g","i","n","g"," ","c","o","n","t","e","n","t">>,
    <<"s","h","a","r","e","a","b","l","e">>,
    <<"e","n","t","e","r","t","a","i","n","i","n","g">>,
    <<"v","i","d","e","o"," ","c","o","n","t","e","n","t">>,
    <<"s","o","c","i","a","l"," ","s","h","a","r","i","n","g">>,
    <<"w","a","t","c","h"," ","n","o","w">>
    >>

\* The tokens of the fallback document's "Hashtags:" line.
FallbackHashtags == <<
    <<"#","s","h","o","r","t","s">>,
    <<"#","v","i","r","a","l">>,
    <<"#","t","r","e","n","d","i","n","g">>,
    <<"#","a","m","a","z","i","n","g">>,
    <<"#","e","n","t","e","r","t","a","i","n","m","e","n","t">>,
    <<"#","v","i","d","e","o">>,
    <<"#","c","o","n","t","e","n","t">>,
    <<"#","s","o","c","i","a","l","m","e","d","i","a">>,
    <<"#","f","u","n","n","y">>,
    <<"#","c","o","o","l">>,
    <<"#","a","w","e","s","o","m","e">>,
    <<"#","m","u","s","t","w","a","t","c","h">>,
    <<"#","i","n","c","r","e","d","i","b","l","e">>,
    <<"#","p","o","p","u","l","a","r">>,
    <<"#","e","n","g","a","g","i","n","g">>,
    <<"#","s","h","a","r","e","a","b","l","e">>,
    <<"#","e","n","t","e","r","t","a","i","n","i","n","g">>,
    <<"#","v","i","d","e","o","o","f","t","h","e","d","a","y">>,
    <<"#","t","r","e","n","d">>,
    <<"#","v","i","r","a","l","2","0","2","4">>,
    <<"#","s","h","o","r","t","s","v","i","d","e","o">>,
    <<"#","v","i","r","a","l","s","h","o","r","t","s">>,
    <<"#","t","r","e","n","d","i","n","g","s","h","o","r","t","s">>,
    <<"#","a","m","a","z","i","n","g","v","i","d","e","o">>,
    <<"#","v","i","r","a","l","c","o","n","t","e","n","t">>,
    <<"#","s","h","o","r","t","s","f","e","e","d">>,
    <<"#","e","x","p","l","o","r","e">>,
    <<"#","f","y","p">>,
    <<"#","f","o","r","y","o","u">>,
    <<"#","v","i","r","a","l","m","o","m","e","n","t">>
    >>

\* The description invocation of this call raised.
DescriptionFailed == \E k \in CallsOf("description") : ~calls[k].ok

\* C8: when generate_description fell back to the static document, the
\* record holds its 20 keywords and its 30 hashtags, term by term and in
\* order, and the first 15 keywords as tags.
C8_FallbackParses ==
    (pc = "done" /\ DescriptionFailed) =>
        /\ Len(metadata.keywords) = 20
        /\ Len(metadata.hashtags) = 30
        /\ Len(metadata.tags) = 15
        /\ metadata.keywords = FallbackKeywords
        /\ metadata.hashtags = FallbackHashtags
        /\ metadata.tags = SubSeq(FallbackKeywords, 1, 15)

\* C8's case: a record built from the fallback document.
C8_Witness ==
    /\ pc = "done"
    /\ DescriptionFailed
    /\ metadata.description = fallback_description
    /\ Len(metadata.hashtags) = 30

QuoteCharacters == {"\"", "'"}

\* s without the quote characters that begin and end it.
WithoutSurroundingQuotes(s) ==
    IF \A k \in 1..Len(s) : s[k] \in QuoteCharacters THEN <<>>
    ELSE LET first == CHOOSE k \in 1..Len(s) :
                          s[k] \notin QuoteCharacters
                          /\ \A j \in 1..(k - 1) : s[j] \in QuoteCharacters
             last == CHOOSE k \in 1..Len(s) :
                          s[k] \notin QuoteCharacters
                          /\ \A j \in (k + 1)..Len(s) : s[j] \in QuoteCharacters
         IN  SubSeq(s, first, last)

\* C9: a generated title is the trimmed response without its surrounding
\* quote characters, every character between them kept.
C9_OnlySurroundingQuotesStripped ==
    (pc = "description" /\ response.ok) =>
        title = WithoutSurroundingQuotes(Strip(response.text))

\* The "Keywords:" lines of the description.
KeywordLines ==
    LET lines == Split(description, "\n")
    IN  {k \in 1..Len(lines) : StartsWith(lines[k], KeywordsLabel)}

\* The leading label dropped, the rest split on commas, each term trimmed.
TermsAfterLabel(line) ==
    LET rest == Strip(SubSeq(line, Len(KeywordsLabel) + 1, Len(line)))
        terms == Split(rest, ",")
    IN  [k \in 1..Len(terms) |-> Strip(terms[k])]

\* C10: for a description with one "Keywords:" line, keywords is that line
\* without its leading label, split on commas, each term trimmed; nothing
\* else of the line is changed.
C10_KeywordsAreTheLineAfterLabel ==
    (pc = "done" /\ Cardinality(KeywordLines) = 1) =>
        LET lines == Split(description, "\n")
        IN  \A k \in KeywordLines : metadata.keywords = TermsAfterLabel(lines[k])

====
